---- MODULE Spec2Model ----
(***************************************************************************)
(* FinanceTracker (src/src/components/FinanceTracker.tsx): a React         *)
(* component holding a transaction list, an entry form, a view filter and  *)
(* a localStorage slot that mirrors the list.                              *)
(*                                                                         *)
(* Strings the code transforms (description, amount text, id, date) are    *)
(* sequences of one-character strings; amounts are integers counted in     *)
(* hundredths (the amount input has step="0.01").                          *)
(***************************************************************************)
EXTENDS Integers, Sequences, FiniteSets, TLC

\* ------------------------------------------------------------------ bounds
\* longest transaction list the model builds (handleSubmit is capped there)
MaxTx == 2
\* number of milliseconds the clock advances during the session
MaxTicks == 1

\* ------------------------------------------------------- program constants
categories ==
  [income  |-> <<"Salary", "Freelance", "Investment">>,
   expense |-> <<"Food", "Transport", "Shopping", "Entertainment", "Bills">>]

Types == {"income", "expense"}
Filters == {"all", "income", "expense"}

\* the value of useState(formData) and the value handleSubmit resets it to
InitialFormData ==
  [description |-> <<>>, amount |-> <<>>, type |-> "expense", category |-> "Food"]

\* --------------------------------------------------------- string helpers
DigitChars == <<"0", "1", "2", "3", "4", "5", "6", "7", "8", "9">>

IsDigit(c) == \E d \in 1..10 : DigitChars[d] = c

DigitVal(c) == (CHOOSE d \in 1..10 : DigitChars[d] = c) - 1

IsSpace(c) == c = " "

RECURSIVE TrimStart(_)
TrimStart(s) ==
  IF s = <<>> THEN s
  ELSE IF IsSpace(Head(s)) THEN TrimStart(Tail(s)) ELSE s

RECURSIVE TrimEnd(_)
TrimEnd(s) ==
  IF s = <<>> THEN s
  ELSE IF IsSpace(s[Len(s)]) THEN TrimEnd(SubSeq(s, 1, Len(s) - 1)) ELSE s

\* String.prototype.trim
Trim(s) == TrimEnd(TrimStart(s))

RECURSIVE NatToString(_)
NatToString(n) ==
  IF n < 10 THEN <<DigitChars[n + 1]>>
  ELSE NatToString(n \div 10) \o <<DigitChars[(n % 10) + 1]>>

\* Date.now().toString()
NowToString(t) == NatToString(t)

\* new Date().toISOString(): a rendering of the same clock reading, in a
\* format of its own
ToISOString(t) == <<"T">> \o NatToString(t) \o <<"Z">>

\* length of the longest prefix of s made of digits
RECURSIVE DigitPrefixLen(_)
DigitPrefixLen(s) ==
  IF s = <<>> \/ ~IsDigit(Head(s)) THEN 0 ELSE 1 + DigitPrefixLen(Tail(s))

RECURSIVE DigitsValue(_)
DigitsValue(s) ==
  IF s = <<>> THEN 0 ELSE DigitsValue(SubSeq(s, 1, Len(s) - 1)) * 10 + DigitVal(s[Len(s)])

\* the parts parseFloat reads: sign, integer digits, fraction digits
NumberParts(s) ==
  LET t    == TrimStart(s)
      neg  == t # <<>> /\ Head(t) = "-"
      body == IF t # <<>> /\ Head(t) \in {"-", "+"} THEN Tail(t) ELSE t
      il   == DigitPrefixLen(body)
      rest == SubSeq(body, il + 1, Len(body))
      hasDot == rest # <<>> /\ Head(rest) = "."
      fl   == IF hasDot THEN DigitPrefixLen(Tail(rest)) ELSE 0
      frac == IF hasDot THEN SubSeq(rest, 2, 1 + fl) ELSE <<>>
      used == (Len(t) - Len(body)) + il + (IF hasDot /\ (il + fl > 0) THEN 1 + fl ELSE 0)
  IN [neg |-> neg, int |-> SubSeq(body, 1, il), frac |-> frac,
      digits |-> il + fl,
      strict |-> /\ t = s /\ used = Len(s)
                 /\ (s = <<>> \/ Head(s) # "+")
                 /\ il > 0 /\ (hasDot => fl > 0)]

\* parseFloat, in hundredths; "NaN" when the text starts with no number
parseFloat(s) ==
  LET p  == NumberParts(s)
      f2 == SubSeq(p.frac \o <<"0", "0">>, 1, 2)
      v  == DigitsValue(p.int) * 100 + DigitsValue(f2)
  IN IF p.digits = 0 THEN "NaN" ELSE IF p.neg THEN 0 - v ELSE v

\* !x for a string x
IsEmptyString(s) == s = <<>>

\* ------------------------------------------- the form's input elements
\* <input type="number">: the DOM keeps the typed text as the element's
\* value only when it is a valid floating-point number, otherwise ""
NumberInputValue(raw) == IF NumberParts(raw).strict THEN raw ELSE <<>>

\* texts the user types into the description field
DescriptionInputs == { <<>>, <<" ">>, <<" ", "a">> }

\* texts the user types into the amount field
AmountInputs == { <<"0">>, <<"-", "5">>, <<"4", ".", "5">>, <<"x">> }

\* the value the amount element takes for each text typed
AmountValue == [raw \in AmountInputs |-> NumberInputValue(raw)]

\* the values formData.description and formData.amount can hold
DescriptionTexts == {InitialFormData.description} \cup DescriptionInputs
AmountTexts == {InitialFormData.amount} \cup {AmountValue[raw] : raw \in AmountInputs}

\* trim, parseFloat and the parts of the number, worked out once for each
\* of those values
TrimOf == [s \in DescriptionTexts |-> Trim(s)]
ParseFloatOf == [s \in AmountTexts |-> parseFloat(s)]
NumberPartsOf == [s \in AmountTexts |-> NumberParts(s)]

\* the browser's constraint validation of the form, which decides whether
\* the submit event is dispatched at all: description `required`;
\* amount `required`, min="0", step="0.01"
FormValid(fd) ==
  /\ fd.description # <<>>
  /\ fd.amount # <<>>
  /\ ParseFloatOf[fd.amount] >= 0
  /\ Len(NumberPartsOf[fd.amount].frac) <= 2

\* ------------------------------------------------------------ JSON
\* JSON.stringify of one Transaction: its members in property order
StringifyTransaction(t) ==
  << <<"id", t.id>>, <<"description", t.description>>, <<"amount", t.amount>>,
     <<"type", t.type>>, <<"category", t.category>> , <<"date", t.date>> >>

\* JSON.stringify(transactions): the text of an array of objects
JSONstringify(txs) ==
  [kind |-> "array", items |-> [i \in 1..Len(txs) |-> StringifyTransaction(txs[i])]]

Member(obj, key) == (CHOOSE i \in 1..Len(obj) : obj[i][1] = key)

ParseObject(obj) ==
  [id          |-> obj[Member(obj, "id")][2],
   description |-> obj[Member(obj, "description")][2],
   amount      |-> obj[Member(obj, "amount")][2],
   type        |-> obj[Member(obj, "type")][2],
   category    |-> obj[Member(obj, "category")][2],
   date        |-> obj[Member(obj, "date")][2]]

\* JSON.parse of a slot text that is valid JSON: an array of objects, or
\* some other JSON value (null, {}, 5 ...), which is not an array
JSONparse(text) ==
  [isArray |-> text.kind = "array",
   items   |-> [i \in 1..Len(text.items) |-> ParseObject(text.items[i])]]

\* slot contents: no item (getItem returns null), the empty string, text
\* that is not JSON, JSON that is not an array, JSON array
Absent    == [kind |-> "absent",   items |-> <<>>]
EmptyText == [kind |-> "empty",    items |-> <<>>]
Garbage   == [kind |-> "garbage",  items |-> <<>>]
NonArray  == [kind |-> "nonarray", items |-> <<>>]

\* the test inverted: `if (!saved)`
TruthyInverted(saved) == saved.kind \in {"absent", "empty"}

\* `if (saved)`: null and "" are falsy
Truthy(saved) == saved.kind \notin {"absent", "empty"}

\* --------------------------------------------------------------- state
VARIABLES
  transactions,    \* useState<Transaction[]>
  showModal,       \* useState(false)
  filter,          \* useState('all')
  formData,        \* useState({description, amount, type, category})
  slot,            \* localStorage item 'financeTracker'
  now,             \* the last reading of the millisecond clock, Date.now()
  crash,           \* "none", or the uncaught error that unmounted the component
  pendingEffects,  \* effects of the last commit that have not run yet
  pendingTx,       \* setTransactions queued by an effect, applied by the next render
  lastEvent,       \* the step taken last: "submit" (a transaction was added),
                   \* "delete" with its id, or "other"
  startup          \* until the first user event: the list the previous session
                   \* saved (<<>> if none); afterwards Acted

vars == <<transactions, showModal, filter, formData, slot, now, crash,
          pendingEffects, pendingTx, lastEvent, startup>>

NoUpdate == [has |-> FALSE, isArray |-> TRUE, items |-> <<>>]

Event(op, arg) == [op |-> op, arg |-> arg]
Other == Event("other", <<>>)

\* transactions a previous session created (clock readings 1 and 2)
OldTx1 == [id |-> NowToString(1), description |-> <<"r">>, amount |-> 100000,
           type |-> "income", category |-> "Salary", date |-> ToISOString(1)]
OldTx2 == [id |-> NowToString(2), description |-> <<"f">>, amount |-> 450,
           type |-> "expense", category |-> "Food", date |-> ToISOString(2)]
PrevLists == { <<>>, <<OldTx2, OldTx1>> }

\* the value of startup once a user event was processed
Acted == [saved |-> <<>>, acted |-> TRUE]
Starting(list) == [saved |-> list, acted |-> FALSE]

Init ==
  /\ transactions = <<>>
  /\ showModal = FALSE
  /\ filter = "all"
  /\ formData = InitialFormData
  /\ \E prev \in PrevLists :
       /\ startup = Starting(prev)
       /\ \/ slot = JSONstringify(prev)
          \/ prev = <<>> /\ slot \in {Absent, EmptyText, Garbage, NonArray}
  /\ now = 3
  /\ crash = "none"
  /\ pendingEffects = {"load", "save", "category"}
  /\ pendingTx = NoUpdate
  /\ lastEvent = Other

Mounted == crash = "none"

\* no effect and no render is pending: the next thing processed is a user event
Quiescent == Mounted /\ pendingEffects = {} /\ ~pendingTx.has

\* ------------------------------------------------------------- effects
\* an uncaught error unmounts the component: its React state is discarded
Unmounted(error) ==
  /\ crash' = error
  /\ transactions' = <<>>
  /\ showModal' = FALSE
  /\ filter' = "all"
  /\ formData' = InitialFormData
  /\ pendingEffects' = {}
  /\ pendingTx' = NoUpdate
  /\ lastEvent' = Other
  /\ UNCHANGED <<slot, now, startup>>

\* useEffect(() => {...}, []) : load; JSON.parse throws on text that is not
\* JSON, and nothing catches it
LoadEffect ==
  /\ Mounted /\ "load" \in pendingEffects
  /\ IF Truthy(slot) /\ slot.kind = "garbage"
       THEN Unmounted("SyntaxError")
       ELSE /\ pendingEffects' = pendingEffects \ {"load"}
            /\ pendingTx' = IF Truthy(slot)
                              THEN [has |-> TRUE] @@ JSONparse(slot)
                              ELSE pendingTx
            /\ lastEvent' = Other
            /\ UNCHANGED <<transactions, showModal, filter, formData, slot, now, crash,
                           startup>>

\* the save effect writing the list as it was before the newest entry
SavedTextStale(txs) == JSONstringify(IF txs = <<>> THEN txs ELSE Tail(txs))

\* the text the save effect writes
SavedText(txs) == JSONstringify(txs)

\* useEffect(() => {...}, [transactions]) : save, when setItem succeeds
SaveEffect ==
  /\ Mounted /\ "save" \in pendingEffects /\ "load" \notin pendingEffects
  /\ pendingEffects' = pendingEffects \ {"save"}
  /\ slot' = SavedText(transactions)
  /\ lastEvent' = Other
  /\ UNCHANGED <<transactions, showModal, filter, formData, now, crash,
                 pendingTx, startup>>

\* the save effect when setItem throws (quota exceeded, storage not
\* accessible): nothing catches it
SaveEffectThrows ==
  /\ Mounted /\ "save" \in pendingEffects /\ "load" \notin pendingEffects
  /\ Unmounted("StorageError")

\* the effect leaving the selected category as it is
CategoryResetMissing(fd) == fd

\* setFormData(prev => ({ ...prev, category: categories[formData.type][0] }))
CategoryReset(fd) == [fd EXCEPT !.category = categories[fd.type][1]]

\* useEffect(() => {...}, [formData.type]) : category reset
CategoryEffect ==
  /\ Mounted /\ pendingEffects = {"category"}
  /\ pendingEffects' = {}
  /\ formData' = CategoryReset(formData)
  /\ lastEvent' = Other
  /\ UNCHANGED <<transactions, showModal, filter, slot, now, crash,
                 pendingTx, startup>>

\* the render that applies the setTransactions(JSON.parse(saved)) of the
\* load effect; the list changed, so the save effect is scheduled again.
\* With a value that is not an array, transactions.filter throws in render
Render ==
  /\ Mounted /\ pendingEffects = {} /\ pendingTx.has
  /\ IF pendingTx.isArray
       THEN /\ transactions' = pendingTx.items
            /\ pendingEffects' = {"save"}
            /\ pendingTx' = NoUpdate
            /\ lastEvent' = Other
            /\ UNCHANGED <<showModal, filter, formData, slot, now, crash,
                           startup>>
       ELSE Unmounted("TypeError")

\* ------------------------------------------------------- user events
UserEventFrame == startup' = Acted /\ UNCHANGED <<slot, now, crash, pendingTx>>

\* onClick={() => setShowModal(true)}
OpenModal ==
  /\ Quiescent /\ ~showModal
  /\ showModal' = TRUE
  /\ lastEvent' = Other
  /\ UNCHANGED <<transactions, filter, formData, pendingEffects>>
  /\ UserEventFrame

\* onClick={() => setShowModal(false)} (the X and the Cancel button)
CloseModal ==
  /\ Quiescent /\ showModal
  /\ showModal' = FALSE
  /\ lastEvent' = Other
  /\ UNCHANGED <<transactions, filter, formData, pendingEffects>>
  /\ UserEventFrame

\* onClick={() => setFilter(f)}
SetFilter(f) ==
  /\ Quiescent
  /\ filter' = f
  /\ lastEvent' = Other
  /\ UNCHANGED <<transactions, showModal, formData, pendingEffects>>
  /\ UserEventFrame

\* description input onChange (fired when the text changes)
ChangeDescription(text) ==
  /\ Quiescent /\ showModal
  /\ text # formData.description
  /\ formData' = [formData EXCEPT !.description = text]
  /\ lastEvent' = Other
  /\ UNCHANGED <<transactions, showModal, filter, pendingEffects>>
  /\ UserEventFrame

\* amount input onChange (fired when the element's value changes)
ChangeAmount(raw) ==
  /\ Quiescent /\ showModal
  /\ AmountValue[raw] # formData.amount
  /\ formData' = [formData EXCEPT !.amount = AmountValue[raw]]
  /\ lastEvent' = Other
  /\ UNCHANGED <<transactions, showModal, filter, pendingEffects>>
  /\ UserEventFrame

\* the Income / Expense buttons of the form; the category effect depends on
\* formData.type and is scheduled when the type changed
SetType(ty) ==
  /\ Quiescent /\ showModal
  /\ formData' = [formData EXCEPT !.type = ty]
  /\ pendingEffects' = IF ty # formData.type THEN {"category"} ELSE {}
  /\ lastEvent' = Other
  /\ UNCHANGED <<transactions, showModal, filter>>
  /\ UserEventFrame

\* the options the user picks in the category select: the first and the
\* fifth of the list shown
CategoryPicks == {1, 5}

\* category select onChange (fired when another option is chosen); the
\* options are categories[formData.type]
SelectCategory(i) ==
  /\ Quiescent /\ showModal
  /\ i \in 1..Len(categories[formData.type])
  /\ categories[formData.type][i] # formData.category
  /\ formData' = [formData EXCEPT !.category = categories[formData.type][i]]
  /\ lastEvent' = Other
  /\ UNCHANGED <<transactions, showModal, filter, pendingEffects>>
  /\ UserEventFrame

\* the form is submitted but the browser's validation fails: no submit
\* event is dispatched and handleSubmit does not run
SubmitBlocked ==
  /\ Quiescent /\ showModal
  /\ ~FormValid(formData)
  /\ lastEvent' = Other
  /\ UNCHANGED <<transactions, showModal, filter, formData, pendingEffects>>
  /\ UserEventFrame

\* the readings of the millisecond clock in this session, and the two
\* renderings of each that handleSubmit stores
Clock == 3..(3 + MaxTicks)
DateNowToString == [t \in Clock |-> NowToString(t)]
DateToISOString == [t \in Clock |-> ToISOString(t)]

\* the Transaction handleSubmit constructs; the clock is read at t (the
\* two reads of one run of the handler give the same millisecond)
NewTransaction(fd, t) ==
  [id          |-> DateNowToString[t],
   description |-> TrimOf[fd.description],
   amount      |-> ParseFloatOf[fd.amount],
   type        |-> fd.type,
   category    |-> fd.category,
   date        |-> DateToISOString[t]]

\* the new entry put at the end instead of the head
PrependAtEnd(newTransaction, prev) == prev \o <<newTransaction>>

\* prev => [newTransaction, ...prev]
Prepend(newTransaction, prev) == <<newTransaction>> \o prev

\* the early return of handleSubmit
Rejects(fd) == IsEmptyString(TrimOf[fd.description]) \/ IsEmptyString(fd.amount)

\* the readings Date.now() can return when the last one was `last`: the
\* clock does not go back, and it may not have advanced
ClockReadings(last) == {t \in Clock : t >= last}

\* handleSubmit; the clock is read at t
HandleSubmit ==
  /\ Quiescent /\ showModal
  /\ FormValid(formData)
  /\ startup' = Acted
  /\ IF Rejects(formData)
       THEN /\ lastEvent' = Other
            /\ UNCHANGED <<transactions, formData, showModal, pendingEffects, now>>
       ELSE /\ Len(transactions) < MaxTx
            /\ \E t \in ClockReadings(now) :
                 /\ now' = t
                 /\ transactions' = Prepend(NewTransaction(formData, t), transactions)
            /\ lastEvent' = Event("submit", <<>>)
            /\ formData' = InitialFormData
            /\ showModal' = FALSE
            /\ pendingEffects' = {"save"} \cup
                 (IF formData.type # InitialFormData.type THEN {"category"} ELSE {})
  /\ UNCHANGED <<filter, slot, crash, pendingTx>>

RECURSIVE WithoutId(_, _)
\* prev => prev.filter(t => t.id !== id)
WithoutId(prev, id) ==
  IF prev = <<>> THEN <<>>
  ELSE (IF Head(prev).id # id THEN <<Head(prev)>> ELSE <<>>) \o WithoutId(Tail(prev), id)

\* deleteTransaction(id); filter returns a new array, so the list state
\* changes and the save effect is scheduled
DeleteTransaction(id) ==
  /\ Quiescent
  /\ transactions' = WithoutId(transactions, id)
  /\ pendingEffects' = {"save"}
  /\ lastEvent' = Event("delete", id)
  /\ UNCHANGED <<showModal, filter, formData>>
  /\ UserEventFrame

\* --------------------------------------------------------- derivations
\* the predicate without its 'all' case
FilterTestNoAll(transaction, f) == transaction.type = f

\* the predicate of filteredTransactions
FilterTest(transaction, f) ==
  IF f = "all" THEN TRUE ELSE transaction.type = f

RECURSIVE filteredTransactions(_, _)
\* const filteredTransactions = transactions.filter(...)
filteredTransactions(txs, f) ==
  IF txs = <<>> THEN <<>>
  ELSE (IF FilterTest(Head(txs), f) THEN <<Head(txs)>> ELSE <<>>)
         \o filteredTransactions(Tail(txs), f)

Ids(txs) == {txs[i].id : i \in 1..Len(txs)}

\* the ids of the rows rendered, each with its delete button
DisplayedIds == Ids(filteredTransactions(transactions, filter))

\* the statistics taken over every entry, whatever its type
StatsEntriesAll(txs, ty) == txs

\* transactions.filter(t => t.type === ty), as calculateStats calls it
StatsEntries(txs, ty) ==
  LET Test(t) == t.type = ty
  IN SelectSeq(txs, Test)

RECURSIVE Reduce(_, _)
\* .reduce((sum, t) => sum + t.amount, 0), called with sum = 0
Reduce(txs, sum) ==
  IF txs = <<>> THEN sum ELSE Reduce(Tail(txs), sum + Head(txs).amount)

\* calculateStats(), evaluated by every render over the transactions state
calculateStats ==
  LET income   == Reduce(StatsEntries(transactions, "income"), 0)
      expenses == Reduce(StatsEntries(transactions, "expense"), 0)
  IN [income |-> income, expenses |-> expenses, balance |-> income - expenses]

Next ==
  \/ LoadEffect
  \/ SaveEffect
  \/ SaveEffectThrows
  \/ CategoryEffect
  \/ Render
  \/ OpenModal
  \/ CloseModal
  \/ \E f \in Filters : SetFilter(f)
  \/ \E text \in DescriptionInputs : ChangeDescription(text)
  \/ \E raw \in AmountInputs : ChangeAmount(raw)
  \/ \E ty \in Types : SetType(ty)
  \/ \E i \in CategoryPicks : SelectCategory(i)
  \/ SubmitBlocked
  \/ HandleSubmit
  \/ \E id \in DisplayedIds : DeleteTransaction(id)

Spec == Init /\ [][Next]_vars

\* ================================================================ claims
SubmitStep == lastEvent'.op = "submit"

\* C1: a form submission that passes validation leaves the list equal to
\* the new transaction followed by the previous list in its previous
\* order: one entry longer, the new entry (built from the form) at index
\* 0, nothing else changed, dropped or reordered.
C1_AddPrependsOne ==
  [][SubmitStep =>
       /\ Len(transactions') = Len(transactions) + 1
       /\ Tail(transactions') = transactions
       /\ Head(transactions').description = Trim(formData.description)
       /\ Head(transactions').type = formData.type
       /\ Head(transactions').category = formData.category
       /\ \A i \in 1..Len(transactions) : transactions'[i + 1] = transactions[i]]_vars

\* an add onto a non-empty list has just happened
C1_Witness ==
  /\ lastEvent.op = "submit"
  /\ Len(transactions) = 2
  /\ transactions[2] = OldTx1

\* v lists exactly the entries of txs that are not `id`, in txs order
IsRestWithout(v, txs, id) ==
  LET S == {i \in 1..Len(txs) : txs[i].id # id}
  IN /\ Len(v) = Cardinality(S)
     /\ \A i \in S : v[Cardinality({j \in S : j <= i})] = txs[i]

\* C2: after deleteTransaction(id) no entry has that id; the length is
\* exactly 1 less when the id was present, and the list is unchanged when
\* it was absent; the other entries keep their relative order.
C2_DeleteRemovesOne ==
  [][lastEvent'.op = "delete" =>
       LET id == lastEvent'.arg
           present == id \in Ids(transactions)
       IN /\ id \notin Ids(transactions')
          /\ Len(transactions') = Len(transactions) - (IF present THEN 1 ELSE 0)
          /\ (~present => transactions' = transactions)
          /\ IsRestWithout(transactions', transactions, id)]_vars

\* C3: no two transactions in the list share an id.
C3_UniqueIds == Cardinality(Ids(transactions)) = Len(transactions)

\* C4: after every add or delete the save effect is the next step taken,
\* before any user event, and in every quiescent state (component mounted,
\* no effect pending) the storage slot holds the serialization of the
\* whole in-memory list, so that reading it back gives that list.
C4_WriteThrough ==
  /\ [](Quiescent =>
          /\ slot = JSONstringify(transactions)
          /\ JSONparse(slot) = [isArray |-> TRUE, items |-> transactions])
  /\ [][(Mounted /\ lastEvent.op \in {"submit", "delete"} /\ "save" \in pendingEffects)
          => /\ "save" \notin pendingEffects'
             /\ (Mounted' => /\ transactions' = transactions
                             /\ slot' = JSONstringify(transactions))]_vars

\* quiescent again after an add in this session
C4_Witness ==
  /\ Quiescent /\ startup.acted
  /\ transactions # <<>>
  /\ Head(transactions).id = DateNowToString[now]
  /\ slot.items = <<StringifyTransaction(Head(transactions))>> \o JSONstringify(Tail(transactions)).items

\* C5: with the slot holding the sequence a previous session saved, the
\* mount effects settle, before any user event, in a state where the
\* in-memory list equals that sequence field for field and in order and
\* the slot holds it again.
C5_RestoreRoundTrip ==
  (Quiescent /\ ~startup.acted) =>
     /\ transactions = startup.saved
     /\ slot = JSONstringify(startup.saved)

\* the mount has settled on a saved list of two entries
C5_Witness ==
  /\ Quiescent /\ ~startup.acted
  /\ Len(startup.saved) = 2
  /\ transactions = <<OldTx2, OldTx1>>

\* C6: slot content that cannot be parsed as a sequence of transactions
\* never raises an error out of loading: the component stays mounted.
C6_CorruptLoadHarmless == crash \notin {"SyntaxError", "TypeError"}

\* C7: when the write of the slot fails after an add or delete, the
\* session does not end: the component stays mounted, the in-memory list
\* still holds the mutation.
C7_FailedWriteNotFatal ==
  [][(Mounted /\ lastEvent.op \in {"submit", "delete"} /\ "save" \in pendingEffects)
       => (Mounted' /\ transactions' = transactions)]_vars

\* what the claim counts as an invalid form: description empty after
\* trimming, or amount text that is not a number greater than 0
InvalidEntry(fd) ==
  \/ TrimOf[fd.description] = <<>>
  \/ NumberPartsOf[fd.amount].digits = 0
  \/ ParseFloatOf[fd.amount] <= 0

\* C8: with an invalid description or amount in the form, no step but a
\* delete (a submission in particular) changes the list or the slot, and
\* every transaction in the store has a non-empty trimmed description and
\* an amount greater than 0.
C8_InvalidRejected ==
  /\ [][(Quiescent /\ showModal /\ InvalidEntry(formData) /\ lastEvent'.op # "delete")
          => (transactions' = transactions /\ slot' = slot)]_vars
  /\ [](\A i \in 1..Len(transactions) :
          /\ Trim(transactions[i].description) # <<>>
          /\ transactions[i].amount > 0)

CategorySet(ty) == {categories[ty][i] : i \in 1..Len(categories[ty])}

\* C9: every transaction in the list has a category of its type's
\* category set.
C9_CategoryMatchesType ==
  \A i \in 1..Len(transactions) :
     transactions[i].category \in CategorySet(transactions[i].type)

\* an income entry was just created, after the type was toggled in the form
C9_Witness ==
  /\ lastEvent.op = "submit"
  /\ Head(transactions).type = "income"
  /\ Head(transactions).category = "Salary"

\* C10: the list shown under 'all' is the full list; under 'income'
\* ('expense') it is exactly the entries of that type in store order; the
\* two typed views partition the list.
C10_FilterViews ==
  LET inc == filteredTransactions(transactions, "income")
      exp == filteredTransactions(transactions, "expense")
      IsIncome(t) == t.type = "income"
      IsExpense(t) == t.type = "expense"
  IN /\ filteredTransactions(transactions, "all") = transactions
     /\ inc = SelectSeq(transactions, IsIncome)
     /\ exp = SelectSeq(transactions, IsExpense)
     /\ Len(inc) + Len(exp) = Len(transactions)
     /\ \A k \in 1..Len(inc) : IsIncome(inc[k]) /\ ~IsExpense(inc[k])
     /\ \A k \in 1..Len(exp) : IsExpense(exp[k]) /\ ~IsIncome(exp[k])
     /\ filteredTransactions(transactions, filter) =
          (CASE filter = "all" -> transactions
             [] filter = "income" -> inc
             [] filter = "expense" -> exp)

\* a typed view is shown of a list holding both types
C10_Witness ==
  /\ filter = "income"
  /\ Len(transactions) = 2
  /\ Len(filteredTransactions(transactions, filter)) = 1

\* the amounts of the entries of type ty, added up over the indices of
\* the whole list
AmountsOfType(txs, ty) ==
  LET upTo[i \in 0..Len(txs)] ==
        IF i = 0 THEN 0
        ELSE upTo[i - 1] + (IF txs[i].type = ty THEN txs[i].amount ELSE 0)
  IN upTo[Len(txs)]

\* C11: calculateStats returns income equal to the sum of the amounts of
\* all income entries of the whole list, expenses equal to the sum of the
\* amounts of all expense entries of the whole list, and balance equal to
\* income - expenses; a change of the active filter changes none of the
\* three values, nor the list, nor the storage slot.
C11_StatsOverWholeStore ==
  /\ [](LET stats    == calculateStats
            income   == AmountsOfType(transactions, "income")
            expenses == AmountsOfType(transactions, "expense")
        IN stats = [income |-> income, expenses |-> expenses,
                    balance |-> income - expenses])
  /\ [][(Mounted' /\ filter' # filter)
          => /\ calculateStats' = calculateStats
             /\ transactions' = transactions
             /\ slot' = slot]_vars

\* a typed view is active over a list with income and expenses, both
\* counted in the statistics
C11_Witness ==
  /\ Quiescent /\ filter = "expense"
  /\ calculateStats.income > 0
  /\ calculateStats.expenses > 0
  /\ calculateStats.balance # calculateStats.income
  /\ Len(filteredTransactions(transactions, filter)) < Len(transactions)

====
